---------------------------- MODULE Spec2Model ----------------------------
(***************************************************************************)
(* A model of spline_slam/spline: SplineMap (spline_map_recursive.py) and  *)
(* SplineLocalization (spline_localization.py).                            *)
(*                                                                         *)
(* Numbers.  The program computes in floating point; the model computes    *)
(* the same expressions exactly, over rationals <<n, d>> (d > 0, lowest    *)
(* terms).  Lengths (knot_space, map_size, ranges, poses) are whole        *)
(* numbers of one length unit, bearings and headings are whole quarter     *)
(* turns, so that cos and sin are exactly 0, 1 or -1.                      *)
(***************************************************************************)
EXTENDS Integers, Sequences, FiniteSets, TLC

VARIABLES smap,      \* the SplineMap object's attributes other than ctrl_pts
          ctrl_pts,  \* SplineMap.ctrl_pts, the flat control-point buffer
          loc,       \* the SplineLocalization object's attributes (pose, ...)
          calls,     \* number of public calls made so far
          last,      \* what the last public call did (observer)
          probe      \* result of the last pure-function evaluation (observer)

vars == <<smap, ctrl_pts, loc, calls, last, probe>>

---------------------------------------------------------------------------
(* Bounds of the model *)

MaxCalls == 1       \* public calls per behaviour
RandDen == 3        \* np.random.rand() is drawn from {0, 1/RandDen, ...}
MaxCoord == 8       \* pure-function probes: |coordinate| <= MaxCoord
MaxAngles == 6      \* pure-function probes: number of bearings
MaxKnotSpace == 3   \* pure-function probes: knot spacings 1..MaxKnotSpace

---------------------------------------------------------------------------
(* Exact arithmetic *)

Abs(x) == IF x < 0 THEN -x ELSE x

Max(a, b) == IF a >= b THEN a ELSE b

Min(a, b) == IF a <= b THEN a ELSE b

RECURSIVE GCD(_, _)
GCD(a, b) == IF b = 0 THEN a ELSE GCD(b, a % b)

\* the rational n/d in lowest terms with a positive denominator
Rat(n, d) ==
    LET s == IF d < 0 THEN -1 ELSE 1
        g == GCD(Abs(n), Abs(d))
    IN  <<(s * n) \div g, (s * d) \div g>>

RInt(n) == <<n, 1>>

RAdd(a, b) ==
    LET g == GCD(a[2], b[2])
    IN  Rat(a[1] * (b[2] \div g) + b[1] * (a[2] \div g), (a[2] \div g) * b[2])

RNeg(a) == <<-a[1], a[2]>>

RSub(a, b) == RAdd(a, RNeg(b))

RMul(a, b) ==
    LET g1 == GCD(Abs(a[1]), b[2])
        g2 == GCD(Abs(b[1]), a[2])
    IN  <<(a[1] \div g1) * (b[1] \div g2), (a[2] \div g2) * (b[2] \div g1)>>

RDiv(a, b) ==
    IF b[1] < 0 THEN RMul(a, <<-b[2], -b[1]>>) ELSE RMul(a, <<b[2], b[1]>>)

RLt(a, b) ==
    LET g == GCD(a[2], b[2])
    IN  a[1] * (b[2] \div g) < b[1] * (a[2] \div g)

RLe(a, b) ==
    LET g == GCD(a[2], b[2])
    IN  a[1] * (b[2] \div g) <= b[1] * (a[2] \div g)

RMin(a, b) == IF RLe(a, b) THEN a ELSE b

RMax(a, b) == IF RLe(b, a) THEN a ELSE b

RAbs(a) == <<Abs(a[1]), a[2]>>

RSign(a) == IF a[1] > 0 THEN RInt(1) ELSE IF a[1] < 0 THEN RInt(-1) ELSE RInt(0)

\* np.ceil(a / b) for integers a and b > 0
CeilDiv(a, b) == -((-a) \div b)

RECURSIVE RSum(_, _, _)
\* the sum of the entries lo..hi of a sequence of rationals (exact, so the
\* order of the additions does not matter; halving keeps the nesting shallow)
RSum(s, lo, hi) ==
    IF lo > hi THEN RInt(0)
    ELSE IF lo = hi THEN s[lo]
    ELSE LET mid == (lo + hi) \div 2
         IN  RAdd(RSum(s, lo, mid), RSum(s, mid + 1, hi))

\* an array holds its values: the function f tabulated over its domain
Array(f) == f @@ <<>>

\* np.arange(start, stop, step), step > 0
Arange(start, stop, step) ==
    LET n == Max(CeilDiv(stop - start, step), 0)
    IN  [i \in 1..n |-> start + (i - 1) * step]

\* np.cos and np.sin of a whole number of quarter turns
Cos4(a) == CASE a % 4 = 0 -> 1 [] a % 4 = 2 -> -1 [] OTHER -> 0

Sin4(a) == CASE a % 4 = 1 -> 1 [] a % 4 = 3 -> -1 [] OTHER -> 0

---------------------------------------------------------------------------
(* SplineMap.__init__ *)

degree == 3

grid_size(kw) ==
    [a \in 1..2 |-> CeilDiv(kw.map_size[a], kw.knot_space) + degree]

grid_center_off == degree - 1

grid_center(kw) ==
    [a \in 1..2 |-> CeilDiv(grid_size(kw)[a] - degree, 2) + grid_center_off]

InitialCtrlValue(kw) == 3 * (kw.logodd_max_occupied + kw.logodd_min_free)

\* ctrl_pts after construction, indexed 0..Gx*Gy-1 as the flat numpy buffer
InitialCtrlPts(kw) ==
    [k \in 0..(grid_size(kw)[1] * grid_size(kw)[2] - 1) |->
        RInt(InitialCtrlValue(kw))]

sensor_subsampling_factor(n_angles, max_nb_rays) ==
    Max(n_angles \div max_nb_rays, 1)

SplineMapInit(kw) ==
    LET angles == Arange(kw.min_angle, kw.max_angle, kw.angle_increment)
    IN  [ degree |-> degree,
          knot_space |-> kw.knot_space,
          grid_size |-> grid_size(kw),
          grid_center |-> grid_center(kw),
          logodd_occupied |-> kw.logodd_occupied,
          logodd_free |-> kw.logodd_free,
          logodd_min_free |-> kw.logodd_min_free,
          logodd_max_occupied |-> kw.logodd_max_occupied,
          free_detection_spacing |-> 2 * kw.knot_space,
          free_ranges |-> Arange(Max(kw.knot_space, kw.range_min),
                                 kw.range_max, 2 * kw.knot_space),
          range_min |-> kw.range_min,
          range_max |-> kw.range_max,
          angles |-> angles,
          max_nb_rays |-> kw.max_nb_rays,
          map_size |-> kw.map_size,
          sensor_subsampling_factor |->
              sensor_subsampling_factor(Len(angles), kw.max_nb_rays) ]

---------------------------------------------------------------------------
(* Spline basis and sparse indices (pure functions of the map's geometry) *)

\* (a3*x^3 + a2*x^2 + a1*x + a0) / 6 at the rational x
Cubic6(a3, a2, a1, a0, x) ==
    LET n == x[1]
        d == x[2]
    IN  Rat(a3 * n * n * n + a2 * n * n * d + a1 * n * d * d + a0 * d * d * d,
            6 * d * d * d)

\* (a2*x^2 + a1*x + a0) / 6 * (1 / knot_space) at the rational x
Quad6(a2, a1, a0, x, ks) ==
    LET n == x[1]
        d == x[2]
    IN  Rat(a2 * n * n + a1 * n * d + a0 * d * d, 6 * d * d * ks)

\* tau_bar = (tau/knot_space + origin) % 1
tau_bar(m, tau) == Rat(tau % m.knot_space, m.knot_space)

SplineB1_typo(t) == Cubic6(3, -24, 60, -48, RAdd(t, RInt(2)))

SplineB0(t) == Cubic6(-1, 12, -48, 64, RAdd(t, RInt(3)))

SplineB1(t) == Cubic6(3, -24, 60, -44, RAdd(t, RInt(2)))

SplineB2(t) == Cubic6(-3, 12, -12, 4, RAdd(t, RInt(1)))

SplineB3(t) == Cubic6(1, 0, 0, 0, t)

\* b[:,0..3] at the knot offset t
SplineBasis(t) == <<SplineB0(t), SplineB1(t), SplineB2(t), SplineB3(t)>>

\* db[:,0..3] at the knot offset t
SplineDerivative(t, ks) ==
    << Quad6(-3, 24, -48, RAdd(t, RInt(3)), ks),
       Quad6(9, -48, 60, RAdd(t, RInt(2)), ks),
       Quad6(-9, 24, -12, RAdd(t, RInt(1)), ks),
       Quad6(3, 0, 0, t, ks) >>

\* compute_spline(tau, origin, ORDER): <<b, db>>, db = -1 unless ORDER = 1
compute_spline(m, tau, ORDER) ==
    LET at(t) == << SplineBasis(t),
                    IF ORDER = 1 THEN SplineDerivative(t, m.knot_space) ELSE -1 >>
    IN  at(tau_bar(m, tau))

\* the 16-vector by[i]*bx[j] at slot i*4+j (1-based: slot k = i*4+j+1)
Tensor16(byv, bxv) ==
    Array([k \in 1..16 |->
              RMul(byv[((k - 1) \div 4) + 1], bxv[((k - 1) % 4) + 1])])

\* compute_tensor_spline(pts, ORDER) over a batch of points: the tuple the
\* function returns, (B, dBx, dBy) when ORDER == 1 and (B, -1) otherwise
compute_tensor_spline(m, pts, ORDER) ==
    LET nb_pts == Len(pts)
        tensor(sx, sy) ==
            IF ORDER = 1
            THEN << [i \in 1..nb_pts |-> Tensor16(sy[i][1], sx[i][1])],
                    [i \in 1..nb_pts |-> Tensor16(sy[i][1], sx[i][2])],
                    [i \in 1..nb_pts |-> Tensor16(sy[i][2], sx[i][1])] >>
            ELSE << [i \in 1..nb_pts |-> Tensor16(sy[i][1], sx[i][1])], -1 >>
    IN  tensor(Array([i \in 1..nb_pts |-> compute_spline(m, pts[i][1], ORDER)]),
               Array([i \in 1..nb_pts |-> compute_spline(m, pts[i][2], ORDER)]))

\* compute_sparse_spline_index(tau, origin): the four axis indices
compute_sparse_spline_index(m, tau, origin) ==
    LET mu == -CeilDiv(-tau, m.knot_space) + origin
    IN  [i \in 1..4 |-> mu - m.degree + (i - 1)]

\* compute_sparse_tensor_index for one point: the 16 flat indices
compute_sparse_tensor_index(m, pt) ==
    LET cx == compute_sparse_spline_index(m, pt[1], m.grid_center[1])
        cy == compute_sparse_spline_index(m, pt[2], m.grid_center[2])
    IN  [k \in 1..16 |->
            cy[((k - 1) \div 4) + 1] * m.grid_size[1] + cx[((k - 1) % 4) + 1]]

\* int(np.random.rand() * sensor_subsampling_factor), rand = u / RandDen
free_space_init(m, u) == (u * m.sensor_subsampling_factor) \div RandDen

---------------------------------------------------------------------------
(* Scan preprocessing and frame changes (both classes define the same      *)
(* three helpers; obj is the SplineMap or the SplineLocalization)          *)

RECURSIVE IdxWhere(_, _)
\* np.where(mask)[0] over the first n entries, as 1-based positions
IdxWhere(mask, n) ==
    IF n = 0 THEN <<>>
    ELSE IF mask[n] THEN Append(IdxWhere(mask, n - 1), n)
         ELSE IdxWhere(mask, n - 1)

\* seq[init::step] (init is 0-based, as in Python)
Stride(seq, init, step) ==
    [j \in 1..Max(CeilDiv(Len(seq) - init, step), 0) |->
        seq[init + (j - 1) * step + 1]]

\* remove_spurious_measurements: ranges[ind_occ], self.angles[ind_occ].
\* A boolean mask whose length differs from len(self.angles) makes
\* self.angles[ind_occ] raise IndexError.
remove_spurious_measurements(obj, ranges) ==
    LET ind_occ == [i \in 1..Len(ranges) |->
                       ranges[i] >= obj.range_min /\ ranges[i] < obj.range_max]
        keep == IdxWhere(ind_occ, Len(ranges))
    IN  IF Len(ranges) # Len(obj.angles)
        THEN [raised |-> "IndexError", ranges |-> <<>>, angles |-> <<>>]
        ELSE [raised |-> "none",
              ranges |-> [j \in 1..Len(keep) |-> ranges[keep[j]]],
              angles |-> [j \in 1..Len(keep) |-> obj.angles[keep[j]]]]

\* range_to_coordinate, for one reading
range_to_coordinate(r, a) == <<r * Cos4(a), r * Sin4(a)>>

\* local_to_global_frame, for one point; pose[3] in quarter turns
local_to_global_frame(pose, p) ==
    LET c == Cos4(pose[3])
        s == Sin4(pose[3])
    IN  <<c * p[1] - s * p[2] + pose[1], s * p[1] + c * p[2] + pose[2]>>

---------------------------------------------------------------------------
(* SplineMap.detect_free_space *)

\* line 89: index_free_matrix[:,0:-1] &= index_free_matrix[:,1:]
AndWithNext(M, k) ==
    [s \in DOMAIN M |->
        [j \in 1..k |-> IF j <= k - 1 THEN M[s][j] /\ M[s][j + 1] ELSE M[s][j]]]

AndWithPrev_skipped(M, k) == M

\* line 90: index_free_matrix[:,1:] &= index_free_matrix[:,0:-1]
AndWithPrev(M, k) ==
    [s \in DOMAIN M |->
        [j \in 1..k |-> IF j >= 2 THEN M[s][j] /\ M[s][j - 1] ELSE M[s][j]]]

RECURSIVE MaskedPoints(_, _, _, _, _)
\* the (row-major) boolean-mask selection of lines 92-93, cells 1..n
MaskedPoints(m, index_free, M, k, n) ==
    IF n = 0 THEN <<>>
    ELSE LET s == ((n - 1) \div k) + 1
             j == ((n - 1) % k) + 1
             rest == MaskedPoints(m, index_free, M, k, n - 1)
         IN  IF M[s][j]
             THEN Append(rest, range_to_coordinate(m.free_ranges[s],
                                                   m.angles[index_free[j]]))
             ELSE rest

\* detect_free_space(ranges), with np.random.rand() = u / RandDen
detect_free_space(m, ranges, u) ==
    LET init == free_space_init(m, u)
        valid == IdxWhere([i \in 1..Len(ranges) |->
                              ranges[i] >= m.range_min /\ ranges[i] <= m.range_max],
                          Len(ranges))
        index_free == Stride(valid, init, m.sensor_subsampling_factor)
        k == Len(index_free)
        M0 == [s \in 1..Len(m.free_ranges) |->
                  [j \in 1..k |-> m.free_ranges[s] < ranges[index_free[j]]]]
        M2 == AndWithPrev(AndWithNext(M0, k), k)
        pts == MaskedPoints(m, index_free, M2, k, Len(m.free_ranges) * k)
    IN  [ pts_free |-> IF Len(pts) = 0 THEN << <<0, 0>> >> ELSE pts,
          index_free |-> index_free,
          index_free_matrix |-> M2 ]

---------------------------------------------------------------------------
(* SplineMap.update_spline_map *)

\* numpy accepts an index c of a buffer of length N iff -N <= c < N
IndexOk(c, N) == -N <= c /\ c < N

\* and a negative one counts from the end
Wrap(c, N) == IF c < 0 THEN c + N ELSE c

\* compute_sparse_tensor_index over a batch of points
compute_sparse_tensor_index_batch(m, pts) ==
    [p \in 1..Len(pts) |-> Array(compute_sparse_tensor_index(m, pts[p]))]

\* the raw index values of an index tensor
RawSet(C) == {C[p][k] : p \in DOMAIN C, k \in 1..16}

\* how often buffer position pos occurs in the index tensor C
Occurrences(C, pos, N) ==
    Cardinality({pk \in (DOMAIN C) \X (1..16) : Wrap(C[pk[1]][pk[2]], N) = pos})

FreeDecrement_accumulating(m, ctrl, C_free, N) ==
    [pos \in DOMAIN ctrl |->
        RSub(ctrl[pos], RInt(Occurrences(C_free, pos, N) * m.logodd_free))]

\* line 183: self.ctrl_pts[c_index_free] -= self.logodd_free
\* (a fancy-indexed in-place subtraction writes each position once)
FreeDecrement(m, ctrl, C_free, N) ==
    LET touched == {Wrap(c, N) : c \in RawSet(C_free)}
    IN  [pos \in DOMAIN ctrl |->
            IF pos \in touched THEN RSub(ctrl[pos], RInt(m.logodd_free))
            ELSE ctrl[pos]]

\* lines 182, 184: self.ctrl_pts[intersect1d(free, occ)] += .5*logodd_free
OverlapCompensation(m, ctrl, C_free, C_occ, N) ==
    LET both == {Wrap(c, N) : c \in RawSet(C_free) \cap RawSet(C_occ)}
    IN  [pos \in DOMAIN ctrl |->
            IF pos \in both THEN RAdd(ctrl[pos], Rat(m.logodd_free, 2))
            ELSE ctrl[pos]]

\* np.sum(self.ctrl_pts[c_index]*B, axis=1) for one point
Estimate(ctrl, c, B, N) ==
    RSum([k \in 1..16 |-> RMul(ctrl[Wrap(c[k], N)], B[k])], 1, 16)

\* line 204, for one hit
HitMagnitude(m, ctrl, c, B, N) ==
    LET e_occ == RSub(RInt(m.logodd_max_occupied), Estimate(ctrl, c, B, N))
        norm_squared == RSum([k \in 1..16 |-> RMul(B[k], B[k])], 1, 16)
    IN  RMul(RMin(RDiv(RInt(m.logodd_occupied), norm_squared), RAbs(e_occ)),
             RSign(e_occ))

\* line 205: np.add.at(self.ctrl_pts, c_index_occ, B_occ*mag); every
\* occurrence of a position in c_index_occ contributes its own term
ScatterAdd(ctrl, C, B, mag, N) ==
    LET n == 16 * Len(C)
        i(cell) == ((cell - 1) \div 16) + 1
        k(cell) == ((cell - 1) % 16) + 1
    IN  [pos \in DOMAIN ctrl |->
            RAdd(ctrl[pos],
                 RSum([cell \in 1..n |->
                          IF Wrap(C[i(cell)][k(cell)], N) = pos
                          THEN RMul(B[i(cell)][k(cell)], mag[i(cell)])
                          ELSE RInt(0)], 1, n))]

SetMin(S) == CHOOSE x \in S : \A y \in S : x <= y

SetMax(S) == CHOOSE x \in S : \A y \in S : x >= y

\* a slice bound the way Python normalises it
SliceBound(b, N) == IF b < 0 THEN Max(b + N, 0) ELSE Min(b, N)

\* line 210 with the bounds as written
ClampSlice(m, ctrl, c_index_min, c_index_max, N) ==
    LET start == SliceBound(c_index_min, N)
        stop  == SliceBound(c_index_max + 1, N)
    IN  [pos \in DOMAIN ctrl |->
            IF start <= pos /\ pos < stop
            THEN RMax(RMin(ctrl[pos], RInt(m.logodd_max_occupied)),
                      RInt(m.logodd_min_free))
            ELSE ctrl[pos]]

\* lines 182-184 on the buffer ctrl
free_update(m, ctrl, C_free, C_occ, N) ==
    OverlapCompensation(m, Array(FreeDecrement(m, ctrl, C_free, N)),
                        C_free, C_occ, N)

\* lines 200-205 on the buffer a184 that lines 182-184 left
hit_update(m, a184, C_occ, B_occ, N) ==
    ScatterAdd(a184, C_occ, B_occ,
               Array([i \in DOMAIN C_occ |->
                         HitMagnitude(m, a184, C_occ[i], B_occ[i], N)]),
               N)

\* lines 208-210 on the buffer a205 that line 205 left
clamp_update(m, a205, C_free, C_occ, N) ==
    ClampSlice(m, a205,
               Min(SetMin({C_occ[i][1] : i \in DOMAIN C_occ}),
                   SetMin({C_free[p][1] : p \in DOMAIN C_free})),
               Max(SetMax({C_occ[i][16] : i \in DOMAIN C_occ}),
                   SetMax({C_free[p][16] : p \in DOMAIN C_free})),
               N)

\* lines 180-210, given the index tensors and the basis values of the hits:
\* what the call raises, where, the buffer it leaves, and the buffer as it
\* was after line 183
index_update(m, ctrl, C_free, C_occ, B_occ, N) ==
    IF \E c \in RawSet(C_occ) : ~IndexOk(c, N)
    THEN [ raised |-> "IndexError", line |-> 180, ctrl |-> ctrl,
           after_free |-> ctrl, C_free |-> C_free, C_occ |-> C_occ ]
    ELSE IF \E c \in RawSet(C_free) : ~IndexOk(c, N)
    THEN [ raised |-> "IndexError", line |-> 183, ctrl |-> ctrl,
           after_free |-> ctrl, C_free |-> C_free, C_occ |-> C_occ ]
    ELSE [ raised |-> IF Len(C_occ) = 0 THEN "ValueError" ELSE "none",
           line |-> IF Len(C_occ) = 0 THEN 208 ELSE 210,
           ctrl |-> IF Len(C_occ) = 0
                    THEN \* np.min of the empty c_index_occ[:,0] raises
                         free_update(m, ctrl, C_free, C_occ, N)
                    ELSE clamp_update(
                             m,
                             Array(hit_update(
                                 m,
                                 Array(free_update(m, ctrl, C_free, C_occ, N)),
                                 C_occ, B_occ, N)),
                             C_free, C_occ, N),
           after_free |-> FreeDecrement(m, ctrl, C_free, N),
           C_free |-> C_free, C_occ |-> C_occ ]

\* update_spline_map(pts_occ, pts_free, pose)
update_spline_map(m, ctrl, pts_occ, pts_free) ==
    index_update(m, ctrl,
                 Array(compute_sparse_tensor_index_batch(m, pts_free)),
                 Array(compute_sparse_tensor_index_batch(m, pts_occ)),
                 Array(compute_tensor_spline(m, pts_occ, 0)[1]),
                 m.grid_size[1] * m.grid_size[2])

\* whether every axis index of every point lies in [0, G-1]
InGrid(m, pts) ==
    \A p \in DOMAIN pts : \A a \in 1..2 :
        \A i \in 1..4 :
            LET c == compute_sparse_spline_index(m, pts[p][a], m.grid_center[a])[i]
            IN  0 <= c /\ c <= m.grid_size[a] - 1

\* update_map(pose, ranges)
update_map(m, ctrl, pose, ranges, u) ==
    LET result(rs, fs, in_grid, r) ==
            IF rs.raised # "none"
            THEN [ op |-> "update_map", outcome |-> rs.raised, line |-> 67,
                   scan |-> ranges, ctrl |-> ctrl, ctrl_before |-> ctrl,
                   pose_before |-> <<>>, after_free |-> ctrl,
                   C_free |-> <<>>, C_occ |-> <<>>, in_grid |-> FALSE,
                   index_free |-> <<>>, index_free_matrix |-> <<>> ]
            ELSE [ op |-> "update_map",
                   outcome |-> IF r.raised = "none" THEN "returned" ELSE r.raised,
                   line |-> r.line,
                   scan |-> ranges, ctrl |-> r.ctrl, ctrl_before |-> ctrl,
                   pose_before |-> <<>>, after_free |-> r.after_free,
                   C_free |-> r.C_free, C_occ |-> r.C_occ,
                   in_grid |-> in_grid,
                   index_free |-> fs.index_free,
                   index_free_matrix |-> fs.index_free_matrix ]
        \* lines 241-242
        update(rs, fs, pts_occ, pts_free) ==
            result(rs, fs, InGrid(m, pts_occ) /\ InGrid(m, pts_free),
                   update_spline_map(m, ctrl, pts_occ, pts_free))
        \* lines 228, 236-237
        frames(rs, fs) ==
            update(rs, fs,
                   [i \in 1..Len(rs.ranges) |->
                       local_to_global_frame(
                           pose, range_to_coordinate(rs.ranges[i], rs.angles[i]))],
                   [i \in DOMAIN fs.pts_free |->
                       local_to_global_frame(pose, fs.pts_free[i])])
    \* lines 224, 232
    IN  frames(remove_spurious_measurements(m, ranges),
               detect_free_space(m, ranges, u))

---------------------------------------------------------------------------
(* SplineLocalization.  Its poses carry the heading in eighth turns       *)
(* (pi/4), the unit of the yaw candidates.  At an odd eighth turn the     *)
(* world coordinates of a point are irrational: the model then keeps the  *)
(* knot cell of the point, which is what decides the control indices,     *)
(* and not the basis values, which go to the solver only.                 *)

Isqrt(n) == CHOOSE q \in 0..n : q * q <= n /\ n < (q + 1) * (q + 1)

\* floor(a * sqrt(2)/2) for an integer a
FloorHalfSqrt2(a) ==
    IF a >= 0 THEN Isqrt((a * a) \div 2) ELSE -Isqrt((a * a) \div 2) - 1

\* local_to_global_frame for a heading in eighth turns: the world point
\* when the heading is a whole quarter turn, and otherwise the integer
\* point of the same knot cell
local_to_global_frame8(pose, p) ==
    IF pose[3] % 2 = 0
    THEN local_to_global_frame(<<pose[1], pose[2], pose[3] \div 2>>, p)
    ELSE LET q == local_to_global_frame(<<0, 0, (pose[3] - 1) \div 2>>, p)
         IN  << FloorHalfSqrt2(q[1] - q[2]) + pose[1],
                FloorHalfSqrt2(q[1] + q[2]) + pose[2] >>

\* the points whose basis values the model computes
BasisPoints(pose, pts) == IF pose[3] % 2 = 0 THEN pts ELSE <<>>

\* lines 82 and 104: the hits in the global frame
global_hits(pose, pts_occ_local) ==
    [i \in DOMAIN pts_occ_local |->
        local_to_global_frame8(pose, pts_occ_local[i])]

\* lines 106-109, given the index tensor and what compute_tensor_spline
\* returned
residual(l, ctrl, c_index_occ, ret, N) ==
    IF Len(ret) # 3      \* B_occ, _, _ = ...
    THEN [raised |-> "ValueError", line |-> 106, r |-> <<>>]
    ELSE IF \E c \in RawSet(c_index_occ) : ~IndexOk(c, N)
    THEN [raised |-> "IndexError", line |-> 107, r |-> <<>>]
    ELSE [raised |-> "none", line |-> 109,
          r |-> [i \in DOMAIN ret[1] |->
                    RSub(RInt(1),
                         RDiv(Estimate(ctrl, c_index_occ[i], ret[1][i], N),
                              RInt(l.logodd_max_occupied)))]]

\* scipy_cost_function(pose, pts_occ_local_x, pts_occ_local_y)
scipy_cost_function(l, m, ctrl, pose, pts_occ_local) ==
    residual(l, ctrl,
             Array(compute_sparse_tensor_index_batch(
                       m, global_hits(pose, pts_occ_local))),
             compute_tensor_spline(
                 m, BasisPoints(pose, global_hits(pose, pts_occ_local)), 1),
             m.grid_size[1] * m.grid_size[2])

\* lines 83-99, given the index tensor and what compute_tensor_spline
\* returned
jacobian(c_index_occ, ret, N) ==
    IF Len(ret) # 3      \* _, dBx_occ, dBy_occ = ...
    THEN [raised |-> "ValueError", line |-> 83]
    ELSE IF \E c \in RawSet(c_index_occ) : ~IndexOk(c, N)
    THEN [raised |-> "IndexError", line |-> 89]
    ELSE [raised |-> "none", line |-> 99]

\* scipy_jacobian(pose, pts_occ_local_x, pts_occ_local_y)
scipy_jacobian(l, m, ctrl, pose, pts_occ_local) ==
    jacobian(Array(compute_sparse_tensor_index_batch(
                       m, global_hits(pose, pts_occ_local))),
             compute_tensor_spline(
                 m, BasisPoints(pose, global_hits(pose, pts_occ_local)), 2),
             m.grid_size[1] * m.grid_size[2])

\* scipy.optimize.least_squares: it evaluates the residual f and then the
\* Jacobian j at the initial guess; sol is what the solver returns
\* (res.x, res.cost) when its callbacks return
least_squares(f, j, sol) ==
    IF f.raised # "none"
    THEN [raised |-> f.raised, line |-> f.line, x |-> <<>>, cost |-> 0]
    ELSE IF j.raised # "none"
    THEN [raised |-> j.raised, line |-> j.line, x |-> <<>>, cost |-> 0]
    ELSE [raised |-> "none", line |-> 75, x |-> sol.x, cost |-> sol.cost]

\* compute_pose(pose_estimate, pts_occ_local, ftol)
compute_pose(l, m, ctrl, pose_estimate, pts_occ_local, sol) ==
    least_squares(scipy_cost_function(l, m, ctrl, pose_estimate, pts_occ_local),
                  scipy_jacobian(l, m, ctrl, pose_estimate, pts_occ_local),
                  sol)

\* the yaw candidates of line 132 and line 134, in eighth turns
Candidates(unreliable_odometry) ==
    IF unreliable_odometry THEN <<0, 1, -1, 2, -2, -6, -6>> ELSE <<0>>

None == <<>>

\* lines 136-139: one candidate's run against the best so far
coarse_step(before, run, n) ==
    IF before.raised # "none" THEN before
    ELSE IF run.raised # "none"
    THEN [before EXCEPT !.raised = run.raised, !.line = run.line]
    ELSE IF ~before.found \/ run.cost < before.cost
    THEN [before EXCEPT !.found = TRUE, !.cost = run.cost,
                        !.pose = run.x, !.winner = n]
    ELSE before

RECURSIVE CoarseLoop(_, _, _, _, _, _, _, _)
\* lines 130-139 after the first n candidates: best_cost_estimate (np.inf
\* while found is FALSE), best_pose_estimate, and the exception if one
\* of the runs raised
CoarseLoop(l, m, ctrl, pose_estimative, pts_occ_local, cand, sols, n) ==
    IF n = 0
    THEN [raised |-> "none", line |-> 130, found |-> FALSE, cost |-> 0,
          pose |-> None, winner |-> 0]
    ELSE coarse_step(
             CoarseLoop(l, m, ctrl, pose_estimative, pts_occ_local,
                        cand, sols, n - 1),
             compute_pose(l, m, ctrl,
                          << pose_estimative[1], pose_estimative[2],
                             pose_estimative[3] + cand[n] >>,
                          pts_occ_local, sols[n]),
             n)

\* lines 120-124: the valid readings as local Cartesian points
LocalHits(obj, ranges) ==
    LET rs == remove_spurious_measurements(obj, ranges)
    IN  [i \in 1..Len(rs.ranges) |->
            range_to_coordinate(rs.ranges[i], rs.angles[i])]

\* update_localization(ranges, pose_estimative, unreliable_odometry)
update_localization(l, m, ctrl, ranges, hint, unreliable_odometry, sols) ==
    LET n == Len(Candidates(unreliable_odometry))
        failed(exc, line, pts_occ_local) ==
            [ op |-> "update_localization", outcome |-> exc, line |-> line,
              scan |-> ranges, pose |-> l.pose, seed |-> None,
              pts_occ_local |-> pts_occ_local,
              ctrl_before |-> ctrl, pose_before |-> l.pose,
              best_found |-> FALSE, best_cost |-> 0, best_pose |-> None,
              cost_self |-> 0, pose_self |-> None, final_x |-> None ]
        result(rs, pts_occ_local, best, self_run, seed, final) ==
            IF rs.raised # "none" THEN failed(rs.raised, 49, l.pts_occ_local)
            ELSE IF best.raised # "none"
            THEN failed(best.raised, best.line, pts_occ_local)
            ELSE IF self_run.raised # "none"
            THEN failed(self_run.raised, self_run.line, pts_occ_local)
            ELSE IF final.raised # "none"
            THEN failed(final.raised, final.line, pts_occ_local)
            ELSE [ op |-> "update_localization", outcome |-> "returned",
                   line |-> 148, scan |-> ranges, pose |-> final.x,
                   seed |-> seed, pts_occ_local |-> pts_occ_local,
                   ctrl_before |-> ctrl, pose_before |-> l.pose,
                   best_found |-> best.found, best_cost |-> best.cost,
                   best_pose |-> best.pose, cost_self |-> self_run.cost,
                   pose_self |-> self_run.x, final_x |-> final.x ]
        \* lines 142-145
        tight(rs, pts_occ_local, best, self_run, seed) ==
            result(rs, pts_occ_local, best, self_run, seed,
                   compute_pose(l, m, ctrl, seed, pts_occ_local, sols[n + 2]))
        \* line 142
        choose(rs, pts_occ_local, best, self_run) ==
            tight(rs, pts_occ_local, best, self_run,
                  IF best.found /\ best.cost < self_run.cost
                  THEN best.pose ELSE self_run.x)
        \* lines 130-140
        coarse(rs, pts_occ_local) ==
            choose(rs, pts_occ_local,
                   CoarseLoop(l, m, ctrl, IF hint = None THEN l.pose ELSE hint,
                              pts_occ_local, Candidates(unreliable_odometry),
                              sols, n),
                   compute_pose(l, m, ctrl, l.pose, pts_occ_local, sols[n + 1]))
    \* lines 119-125
    IN  coarse(remove_spurious_measurements(l, ranges), LocalHits(l, ranges))

---------------------------------------------------------------------------
(* Specification of the pure functions: a map is constructed from bounded  *)
(* parameters and its geometry functions are applied to bounded points.    *)

GeoKwargs ==
    [ knot_space : 1..MaxKnotSpace,
      map_size : {<<s, s>> : s \in {4, 5, 6}} \cup {<<6, 4>>},
      min_angle : {0},
      max_angle : 1..MaxAngles,
      angle_increment : {1},
      range_min : {1},
      range_max : {7},
      logodd_occupied : {3},
      logodd_free : {1},
      logodd_min_free : {-6},
      logodd_max_occupied : {6},
      max_nb_rays : 1..4 ]

NoProbe == [op |-> "none"]

NoCall == [op |-> "none"]

LocInit(kw) ==
    [ angles |-> Arange(kw.min_angle, kw.max_angle, kw.angle_increment),
      range_min |-> kw.range_min,
      range_max |-> kw.range_max,
      logodd_max_occupied |-> kw.logodd_max_occupied,
      pose |-> <<0, 0, 0>>,
      pts_occ_local |-> None ]

InitGeo ==
    \E kw \in GeoKwargs :
        /\ smap = SplineMapInit(kw)
        /\ ctrl_pts = InitialCtrlPts(kw)
        /\ loc = LocInit(kw)
        /\ calls = 0
        /\ last = NoCall
        /\ probe = NoProbe

ProbeCoords == (-MaxCoord)..MaxCoord

ProbeTensorSpline ==
    /\ probe.op = "none"
    /\ \E x \in ProbeCoords, y \in {-3, 0, 1, 2} :
        LET r == compute_tensor_spline(smap, << <<x, y>> >>, 0)
        IN  probe' = [ op |-> "compute_tensor_spline", pt |-> <<x, y>>,
                       t |-> <<tau_bar(smap, x), tau_bar(smap, y)>>,
                       bx |-> compute_spline(smap, x, 0)[1],
                       by |-> compute_spline(smap, y, 0)[1],
                       B |-> r[1][1] ]
    /\ UNCHANGED <<smap, ctrl_pts, loc, calls, last>>

ProbeTensorIndex ==
    /\ probe.op = "none"
    /\ \E x \in ProbeCoords, y \in {-3, 0, 1, 2} :
        probe' = [ op |-> "compute_sparse_tensor_index", pt |-> <<x, y>>,
                   cx |-> compute_sparse_spline_index(smap, x, smap.grid_center[1]),
                   cy |-> compute_sparse_spline_index(smap, y, smap.grid_center[2]),
                   c |-> compute_sparse_tensor_index(smap, <<x, y>>) ]
    /\ UNCHANGED <<smap, ctrl_pts, loc, calls, last>>

ProbeFreeSpaceInit ==
    /\ probe.op = "none"
    /\ \E u \in 0..(RandDen - 1) :
        probe' = [ op |-> "free_space_init", u |-> u,
                   init |-> free_space_init(smap, u) ]
    /\ UNCHANGED <<smap, ctrl_pts, loc, calls, last>>

NextGeo == ProbeTensorSpline \/ ProbeTensorIndex \/ ProbeFreeSpaceInit

SpecGeo == InitGeo /\ [][NextGeo]_vars

---------------------------------------------------------------------------
(* Specification of the two objects: a SplineMap and a SplineLocalization  *)
(* bound to it are constructed from the same parameters, and then the      *)
(* driver calls update_map and update_localization, one call at a time.    *)

MapKwargs ==
    [ knot_space : {2},
      map_size : {<<14, 14>>},
      min_angle : {0},
      max_angle : {3},
      angle_increment : {1},
      range_min : {1, 7},
      range_max : {7},
      logodd_occupied : {3},
      logodd_free : {1},
      logodd_min_free : {-6, -1},
      logodd_max_occupied : {6},
      max_nb_rays : {1, 3} ]

\* a reading below range_min, a hit, and one at range_max (free space only)
Readings == {0, 4, 7}

\* scans of the right length, and one that is too short
Scans == [1..3 -> Readings] \cup {<<4, 4>>}

MapPoses == {<<0, 0, 0>>, <<2, 2, 1>>, <<-2, 4, 0>>}

LocScans == {<<0, 0, 0>>, <<3, 3, 3>>, <<7, 3, 0>>, <<3, 3>>}

LocHints == {None, <<1, 1, 2>>, <<-1, 2, 1>>}

SolverResults == [x : {<<0, 0, 0>>, <<1, 1, 2>>}, cost : {0, 1}]

NoSolution == [i \in 1..9 |-> [x |-> <<0, 0, 0>>, cost |-> 0]]

\* the solver results a call can see: they matter only when the scan is
\* accepted and the first evaluation of the callbacks returns
SolverRuns(ranges, hint, unreliable_odometry) ==
    IF /\ Len(ranges) = Len(loc.angles)
       /\ compute_pose(loc, smap, ctrl_pts,
                       IF hint = None THEN loc.pose ELSE hint,
                       LocalHits(loc, ranges), NoSolution[1]).raised = "none"
    THEN [1..9 -> SolverResults]
    ELSE {NoSolution}

Init ==
    \E kw \in MapKwargs :
        /\ smap = SplineMapInit(kw)
        /\ ctrl_pts = InitialCtrlPts(kw)
        /\ loc = LocInit(kw)
        /\ calls = 0
        /\ last = NoCall
        /\ probe = NoProbe

UpdateMap ==
    /\ calls < MaxCalls
    /\ \E pose \in MapPoses, ranges \in Scans, u \in 0..(RandDen - 1) :
        \E r \in {update_map(smap, ctrl_pts, pose, ranges, u)} :
            /\ ctrl_pts' = r.ctrl
            /\ last' = [r EXCEPT !.pose_before = loc.pose]
    /\ calls' = calls + 1
    /\ UNCHANGED <<smap, loc, probe>>

UpdateLocalization ==
    /\ calls < MaxCalls
    /\ \E ranges \in LocScans, hint \in LocHints, unreliable \in BOOLEAN :
        \E sols \in SolverRuns(ranges, hint, unreliable) :
            \E r \in {update_localization(loc, smap, ctrl_pts, ranges, hint,
                                          unreliable, sols)} :
                /\ loc' = [loc EXCEPT !.pose = r.pose,
                                      !.pts_occ_local = r.pts_occ_local]
                /\ last' = r
    /\ calls' = calls + 1
    /\ UNCHANGED <<smap, ctrl_pts, probe>>

Next == UpdateMap \/ UpdateLocalization

Spec == Init /\ [][Next]_vars

---------------------------------------------------------------------------
(* Properties.  MapCalled and LocCalled say which call the state follows.  *)

MapCalled == last.op = "update_map"

LocCalled == last.op = "update_localization"

RightLength == Len(last.scan) = Len(smap.angles)

\* the free-decrement step of the last update_map call has run
FreeStepRan == MapCalled /\ last.outcome \in {"returned", "ValueError"}

BufferSize == smap.grid_size[1] * smap.grid_size[2]

\* C1: after an update_map call that returned, on a map whose hit and free
\* points all lie inside the grid, every control point lies in [LMIN, LMAX].
C1_EveryControlPointSaturated ==
    (MapCalled /\ last.outcome = "returned" /\ last.in_grid) =>
        \A k \in DOMAIN ctrl_pts :
            /\ RLe(RInt(smap.logodd_min_free), ctrl_pts[k])
            /\ RLe(ctrl_pts[k], RInt(smap.logodd_max_occupied))

\* C2: a call with a scan of the wrong length, or on an instance configured
\* with range_min >= range_max, ends in an error raised at entry (the scan
\* validation of line 67 or 49) and leaves the buffer and the pose as they were.
C2_InvalidScanRejectedAtEntry ==
    ( /\ MapCalled \/ LocCalled
      /\ ~RightLength \/ smap.range_min >= smap.range_max ) =>
        /\ last.outcome # "returned"
        /\ last.line \in {67, 49}
        /\ ctrl_pts = last.ctrl_before
        /\ loc.pose = last.pose_before

\* C3: on a map with range_min < range_max, update_map with a scan of the
\* right length whose points lie inside the grid returns (it raises
\* nothing), hits or no hits.
C3_UpdateMapReturns ==
    ( /\ MapCalled
      /\ RightLength
      /\ smap.range_min < smap.range_max
      /\ last.in_grid ) => last.outcome = "returned"

\* C4: update_localization with a scan of the right length that holds a
\* valid reading returns, with self.pose assigned the result of the final run.
C4_UpdateLocalizationReturns ==
    (LocCalled /\ RightLength /\ Len(last.pts_occ_local) > 0) =>
        last.outcome = "returned" /\ loc.pose = last.final_x

\* C5: the four cubic basis values of a coordinate are nonnegative and sum
\* to 1, on both axes, and the 16 tensor values of the point sum to 1.
C5_PartitionOfUnity ==
    probe.op = "compute_tensor_spline" =>
        /\ \A i \in 1..4 : RLe(RInt(0), probe.bx[i]) /\ RLe(RInt(0), probe.by[i])
        /\ RSum(probe.bx, 1, 4) = RInt(1)
        /\ RSum(probe.by, 1, 4) = RInt(1)
        /\ RSum(probe.B, 1, 16) = RInt(1)

\* C5 happens: a point with a fractional knot offset on both axes was probed.
C5_FractionalOffsetProbed ==
    /\ probe.op = "compute_tensor_spline"
    /\ probe.t[1] = <<2, 3>>
    /\ probe.t[2] = <<1, 3>>

C7_SeedAndPose ==
    (LocCalled /\ RightLength) =>
        /\ last.outcome = "returned"
        /\ last.seed = IF last.best_found /\ last.best_cost < last.cost_self
                       THEN last.best_pose ELSE last.pose_self
        /\ last.seed \in {last.best_pose, last.pose_self}
        /\ last.seed # None
        /\ loc.pose = last.final_x

\* range of the j-th selected ray of the last scan
SelectedRange(j) == last.scan[last.index_free[j]]

\* detect_free_space ran in the last update_map call
FreeDetected == MapCalled /\ RightLength

\* C8 (as the code has it): the sample at range rho on the j-th selected ray
\* is kept iff rho is below the range of that ray and below the ranges of
\* the selected rays before and after it, where there are such rays.
C8_SampleKeptIffBelowRayAndNeighbours ==
    FreeDetected =>
        LET k == Len(last.index_free)
        IN  \A s \in DOMAIN smap.free_ranges : \A j \in 1..k :
                last.index_free_matrix[s][j] <=>
                    /\ smap.free_ranges[s] < SelectedRange(j)
                    /\ j > 1 => smap.free_ranges[s] < SelectedRange(j - 1)
                    /\ j < k => smap.free_ranges[s] < SelectedRange(j + 1)

\* C8 happens: a sample below its own ray's range was dropped.
C8_SampleDroppedByNeighbour ==
    /\ FreeDetected
    /\ \E s \in DOMAIN smap.free_ranges : \E j \in 1..Len(last.index_free) :
           /\ smap.free_ranges[s] < SelectedRange(j)
           /\ ~last.index_free_matrix[s][j]

\* C8 (as the specification has it): a sample is kept iff it is below the
\* range of its own ray.
C8_SampleKeptIffBelowOwnRay ==
    FreeDetected =>
        \A s \in DOMAIN smap.free_ranges : \A j \in 1..Len(last.index_free) :
            last.index_free_matrix[s][j] <=>
                smap.free_ranges[s] < SelectedRange(j)

\* C9: the subsampling stride is ceil(|angles| / max_nb_rays), and the
\* phase offset drawn for a scan is an integer in [0, stride).
C9_StrideIsCeiling ==
    /\ smap.sensor_subsampling_factor =
           CeilDiv(Len(smap.angles), smap.max_nb_rays)
    /\ probe.op = "free_space_init" =>
           0 <= probe.init /\ probe.init < smap.sensor_subsampling_factor

\* C10: a point of the map_size square centred on the origin has its four
\* supporting indices on each axis inside [0, G-1].
C10_SupportInsideGrid ==
    ( /\ probe.op = "compute_sparse_tensor_index"
      /\ \A a \in 1..2 : /\ -smap.map_size[a] <= 2 * probe.pt[a]
                         /\ 2 * probe.pt[a] < smap.map_size[a] ) =>
        \A i \in 1..4 :
            /\ 0 <= probe.cx[i] /\ probe.cx[i] <= smap.grid_size[1] - 1
            /\ 0 <= probe.cy[i] /\ probe.cy[i] <= smap.grid_size[2] - 1

=============================================================================
